---- MODULE Spec2Model ----
(***************************************************************************)
(* Model of src/main.py: the /api/analysis handler get_analysis and its    *)
(* field normalisers to_float and parse_date.                              *)
(*                                                                         *)
(* Text is a sequence of one-character strings.                            *)
(*                                                                         *)
(* Spec, SpecTrend and SpecNum hold a Python float as an exact decimal, an *)
(* integer count of 10^-FracDigits units: their inputs are small decimals  *)
(* whose sums stay clear of the ties of round(x, 2), where exact and       *)
(* binary arithmetic give the same response.  SpecFloat runs the           *)
(* aggregation loop with the sums in IEEE-754 binary64, bit for bit.       *)
(***************************************************************************)
EXTENDS Integers, Sequences, FiniteSets, TLC

VARIABLES
    sheet,                 \* what the remote CSV export holds: lines of cells
    pc,                    \* position inside get_analysis
    raised,                \* exception pending at the end of the try block
    content,               \* r.text, as the lines csv.reader yields
    rows,                  \* rows collected from csv.DictReader
    idx,                   \* number of rows the aggregation loop has consumed
    total_revenue,
    qty_per_month,
    revenue_per_month,
    engagement_per_month,
    country_sales,
    payment_counts,
    months_set,
    response,              \* what the caller receives
    val,                   \* to_float harness: the argument
    result                 \* to_float harness: the returned value

vars == <<sheet, pc, raised, content, rows, idx, total_revenue, qty_per_month,
          revenue_per_month, engagement_per_month, country_sales,
          payment_counts, months_set, response, val, result>>

analysisVars == <<sheet, pc, raised, content, rows, idx, total_revenue,
                  qty_per_month, revenue_per_month, engagement_per_month,
                  country_sales, payment_counts, months_set, response>>

(***************************************************************************)
(* Bounds                                                                  *)
(***************************************************************************)
FracDigits == 3            \* decimal places a modelled float keeps exactly
MaxLen == 3                \* longest enumerated argument text of to_float
MaxRows == 3               \* most data rows of a sheet (general catalog)
MaxTrendRows == 6          \* most rows of a sheet drawn from the month catalog

Scale == 10 ^ FracDigits

Num(n) == n * Scale

(***************************************************************************)
(* Characters and text                                                     *)
(***************************************************************************)
Digits == {"0", "1", "2", "3", "4", "5", "6", "7", "8", "9"}

Whitespace == {" "}

DigitVal(c) ==
    CASE c = "0" -> 0 [] c = "1" -> 1 [] c = "2" -> 2 [] c = "3" -> 3
      [] c = "4" -> 4 [] c = "5" -> 5 [] c = "6" -> 6 [] c = "7" -> 7
      [] c = "8" -> 8 [] c = "9" -> 9

DigitChar(n) ==
    CASE n = 0 -> "0" [] n = 1 -> "1" [] n = 2 -> "2" [] n = 3 -> "3"
      [] n = 4 -> "4" [] n = 5 -> "5" [] n = 6 -> "6" [] n = 7 -> "7"
      [] n = 8 -> "8" [] n = 9 -> "9"

\* Code point order of the characters a month key is made of.
Ord(c) == IF c = "-" THEN 45 ELSE 48 + DigitVal(c)

\* None, as a cell or argument value; no text equals it.
NoneVal == <<"None">>

RECURSIVE LStrip(_)
LStrip(s) ==
    IF s # <<>> /\ Head(s) \in Whitespace THEN LStrip(Tail(s)) ELSE s

RECURSIVE RStrip(_)
RStrip(s) ==
    IF s # <<>> /\ s[Len(s)] \in Whitespace
    THEN RStrip(SubSeq(s, 1, Len(s) - 1))
    ELSE s

\* str.strip()
Strip(s) == RStrip(LStrip(s))

(***************************************************************************)
(* to_float                                                                *)
(***************************************************************************)
IsKeptChar(c) == c \in Digits \cup {".", "-"}

\* A pattern that also removes a minus sign with a kept character before it.
RECURSIVE CurrencySubLeadingMinusOnly(_)
CurrencySubLeadingMinusOnly(s) ==
    IF s = <<>> THEN <<>>
    ELSE IF Head(s) \in Digits \cup {".", "-"}
         THEN <<Head(s)>> \o SelectSeq(Tail(s), LAMBDA c : c \in Digits \cup {"."})
         ELSE CurrencySubLeadingMinusOnly(Tail(s))

\* CURRENCY_RE.sub("", s): delete every character matching [^0-9.\-]
CurrencySub(s) == SelectSeq(s, IsKeptChar)

\* float(s) for a text of digits, "." and "-" only, scanned left to right as
\* the C parser does: an optional sign, digits, an optional point, digits;
\* at least one digit; nothing left over.  ok = FALSE is ValueError.
RECURSIVE ScanDigits(_, _)
ScanDigits(s, i) ==
    IF i <= Len(s) /\ s[i] \in Digits THEN ScanDigits(s, i + 1) ELSE i

RECURSIVE IntValue(_, _, _)
IntValue(s, from, to) ==
    IF from > to THEN 0
    ELSE IntValue(s, from, to - 1) * 10 + DigitVal(s[to])

RECURSIVE FracValue(_, _, _, _)
FracValue(s, from, to, unit) ==
    IF from > to THEN 0
    ELSE DigitVal(s[from]) * (unit \div 10)
         + FracValue(s, from + 1, to, unit \div 10)

PyFloat(s) ==
    LET neg     == s # <<>> /\ s[1] = "-"
        start   == IF neg THEN 2 ELSE 1
        intEnd  == ScanDigits(s, start)
        hasDot  == intEnd <= Len(s) /\ s[intEnd] = "."
        fracBeg == IF hasDot THEN intEnd + 1 ELSE intEnd
        fracEnd == IF hasDot THEN ScanDigits(s, fracBeg) ELSE intEnd
        nDigits == (intEnd - start) + (fracEnd - fracBeg)
        mag     == IntValue(s, start, intEnd - 1) * Scale
                   + FracValue(s, fracBeg, fracEnd - 1, Scale)
    IN IF nDigits > 0 /\ fracEnd = Len(s) + 1
       THEN [ok |-> TRUE, v |-> IF neg THEN 0 - mag ELSE mag]
       ELSE [ok |-> FALSE, v |-> 0]

\* An argument is None, a number (int or float) or text.
PyNone == [kind |-> "none"]
PyNumber(n) == [kind |-> "number", n |-> n]
PyStr(s) == [kind |-> "str", s |-> s]

to_float(v) ==
    IF v.kind = "none" THEN 0
    ELSE IF v.kind = "number" THEN v.n
    ELSE LET s == Strip(v.s)
         IN IF s = <<>> THEN 0
            ELSE LET t == CurrencySub(s)
                     f == PyFloat(t)
                 IN IF t # <<>> /\ f.ok THEN f.v ELSE 0

\* A cell of a row is text or None.
Arg(cell) == IF cell = NoneVal THEN PyNone ELSE PyStr(cell)

\* int(x): truncation toward zero, back to a whole number
PyInt(x) == IF x >= 0 THEN x \div Scale ELSE 0 - ((0 - x) \div Scale)

(***************************************************************************)
(* parse_date, datetime.fromisoformat and the month key                    *)
(***************************************************************************)
AllDigits(f) == \A i \in 1..Len(f) : f[i] \in Digits

\* The fields of s between occurrences of the separator sep.
RECURSIVE SplitOn(_, _)
SplitOn(s, sep) ==
    IF \A i \in 1..Len(s) : s[i] # sep THEN <<s>>
    ELSE LET k == CHOOSE i \in 1..Len(s) :
                    s[i] = sep /\ \A j \in 1..(i - 1) : s[j] # sep
         IN <<SubSeq(s, 1, k - 1)>> \o SplitOn(SubSeq(s, k + 1, Len(s)), sep)

\* What one strptime directive accepts as a whole field, and its value;
\* -1 when the field does not match.
\*   %Y  \d\d\d\d
\*   %m  1[0-2]|0[1-9]|[1-9]
\*   %d  3[01]|[12]\d|0[1-9]|[1-9]| [1-9]
MatchField(dir, f) ==
    LET n == IntValue(f, 1, Len(f))
    IN CASE dir = "Y" ->
              IF Len(f) = 4 /\ AllDigits(f) THEN n ELSE -1
         [] dir = "m" ->
              IF Len(f) \in {1, 2} /\ AllDigits(f) /\ n >= 1 /\ n <= 12
              THEN n ELSE -1
         [] dir = "d" ->
              IF Len(f) \in {1, 2} /\ AllDigits(f) /\ n >= 1 /\ n <= 31
              THEN n
              ELSE IF Len(f) = 2 /\ f[1] = " " /\ f[2] \in Digits \ {"0"}
                   THEN DigitVal(f[2])
                   ELSE -1

IsLeap(y) == (y % 4 = 0 /\ y % 100 # 0) \/ y % 400 = 0

DaysInMonth(y, m) ==
    IF m = 2 THEN (IF IsLeap(y) THEN 29 ELSE 28)
    ELSE IF m \in {4, 6, 9, 11} THEN 30 ELSE 31

\* datetime(y, m, d) raises ValueError outside these ranges.
ValidDate(y, m, d) ==
    y >= 1 /\ y <= 9999 /\ m >= 1 /\ m <= 12 /\ d >= 1 /\ d <= DaysInMonth(y, m)

NoDate == [ok |-> FALSE, y |-> 0, m |-> 0, d |-> 0]

\* datetime.strptime(s, fmt) for a format of three directives joined by one
\* separator; ok = FALSE is the exception the caller swallows.
Strptime(s, fmt) ==
    LET fs == SplitOn(s, fmt.sep)
    IN IF Len(fs) # 3 THEN NoDate
       ELSE LET v == [i \in 1..3 |-> MatchField(fmt.dirs[i], fs[i])]
                at(dir) == v[CHOOSE i \in 1..3 : fmt.dirs[i] = dir]
            IN IF (\A i \in 1..3 : v[i] # -1)
                  /\ ValidDate(at("Y"), at("m"), at("d"))
               THEN [ok |-> TRUE, y |-> at("Y"), m |-> at("m"), d |-> at("d")]
               ELSE NoDate

\* ("%Y-%m-%d", "%d/%m/%Y", "%m/%d/%Y", "%Y/%m/%d")
Formats ==
    << [dirs |-> <<"Y", "m", "d">>, sep |-> "-"],
       [dirs |-> <<"d", "m", "Y">>, sep |-> "/"],
       [dirs |-> <<"m", "d", "Y">>, sep |-> "/"],
       [dirs |-> <<"Y", "m", "d">>, sep |-> "/"] >>

RECURSIVE TryFormats(_, _)
TryFormats(s, i) ==
    IF i > Len(Formats) THEN NoDate
    ELSE LET r == Strptime(s, Formats[i])
         IN IF r.ok THEN r ELSE TryFormats(s, i + 1)

parse_date(cell) ==
    IF cell = NoneVal \/ cell = <<>> THEN NoDate
    ELSE TryFormats(Strip(cell), 1)

\* The time part fromisoformat takes after the date and one separator
\* character: HH, HH:MM or HH:MM:SS.
TimeOk(t) ==
    /\ Len(t) \in {2, 5, 8}
    /\ \A i \in 1..Len(t) : IF i \in {3, 6} THEN t[i] = ":" ELSE t[i] \in Digits
    /\ IntValue(t, 1, 2) <= 23
    /\ Len(t) >= 5 => IntValue(t, 4, 5) <= 59
    /\ Len(t) >= 8 => IntValue(t, 7, 8) <= 59

\* datetime.fromisoformat(s), for the extended form YYYY-MM-DD[*HH[:MM[:SS]]]
\* that every release of the library accepts.
FromIsoFormat(s) ==
    IF Len(s) < 10 THEN NoDate
    ELSE LET y == SubSeq(s, 1, 4)
             m == SubSeq(s, 6, 7)
             d == SubSeq(s, 9, 10)
             rest == SubSeq(s, 11, Len(s))
         IN IF /\ AllDigits(y) /\ AllDigits(m) /\ AllDigits(d)
               /\ s[5] = "-" /\ s[8] = "-"
               /\ ValidDate(IntValue(y, 1, 4), IntValue(m, 1, 2), IntValue(d, 1, 2))
               /\ (rest = <<>> \/ (Len(rest) >= 2 /\ TimeOk(Tail(rest))))
            THEN [ok |-> TRUE, y |-> IntValue(y, 1, 4), m |-> IntValue(m, 1, 2),
                  d |-> IntValue(d, 1, 2)]
            ELSE NoDate

\* The bucket of rows without a date.
Unknown == <<"u", "n", "k", "n", "o", "w", "n">>

\* d.strftime("%Y-%m")
MonthKeyOfDate(d) ==
    << DigitChar(d.y \div 1000), DigitChar((d.y \div 100) % 10),
       DigitChar((d.y \div 10) % 10), DigitChar(d.y % 10), "-",
       DigitChar(d.m \div 10), DigitChar(d.m % 10) >>

(***************************************************************************)
(* dict: keys in insertion order, and their values                         *)
(***************************************************************************)
EmptyDict == [keys |-> <<>>, val |-> <<>>]

Range(s) == {s[i] : i \in 1..Len(s)}

Has(d, k) == k \in Range(d.keys)

\* d.get(k, default)
DictGet(d, k, default) == IF Has(d, k) THEN d.val[k] ELSE default

\* d[k] = v
DictSet(d, k, v) ==
    [keys |-> IF Has(d, k) THEN d.keys ELSE Append(d.keys, k),
     val  |-> [x \in Range(d.keys) \cup {k} |-> IF x = k THEN v ELSE d.val[x]]]

(***************************************************************************)
(* csv.DictReader over the lines of the text                               *)
(***************************************************************************)
\* The first line gives the field names; blank lines after it are skipped;
\* a short line leaves its missing fields None; cells beyond the field
\* names go under the key None, which get_analysis never reads.
MakeRow(fieldnames, line) ==
    [k \in Range(fieldnames) |->
        LET i == CHOOSE j \in 1..Len(fieldnames) :
                    fieldnames[j] = k
                    /\ \A h \in (j + 1)..Len(fieldnames) : fieldnames[h] # k
        IN IF i <= Len(line) THEN line[i] ELSE NoneVal]

NonBlank(line) == line # <<>>

DictReader(lines) ==
    IF lines = <<>> THEN <<>>
    ELSE LET fieldnames == Head(lines)
             data == SelectSeq(Tail(lines), NonBlank)
         IN [i \in 1..Len(data) |-> MakeRow(fieldnames, data[i])]

\* rrow.get(key, default)
RowGet(rrow, key, default) ==
    IF key \in DOMAIN rrow THEN rrow[key] ELSE default

\* x or y, for a cell x
Or(x, y) == IF x = NoneVal \/ x = <<>> THEN y ELSE x

UnknownName == <<"U", "n", "k", "n", "o", "w", "n">>

(***************************************************************************)
(* The aggregation loop of get_analysis                                    *)
(***************************************************************************)
Amount == "Amount"
Quantity == "Quantity"
TotalOrders == "TotalOrders"
Country == "Country"
PaymentMode == "PaymentMode"
InvoiceDate == "InvoiceDate"

Zero == <<"0">>

\* A name whose text is not replaced once stripping leaves it empty.
NameOfWithoutSecondOr(rrow, key) ==
    Strip(Or(RowGet(rrow, key, NoneVal), UnknownName))

\* (rrow.get(key) or "Unknown").strip() or "Unknown"
NameOf(rrow, key) ==
    Or(Strip(Or(RowGet(rrow, key, NoneVal), UnknownName)), UnknownName)

\* d = parse_date(text); if d is None: d = datetime.fromisoformat(stripped)
FirstDate(d, stripped) == IF d.ok THEN d ELSE FromIsoFormat(stripped)

\* The date of the row, None as ok = FALSE.
DateOf(rrow) ==
    FirstDate(parse_date(RowGet(rrow, InvoiceDate, <<>>)),
              Strip(Or(RowGet(rrow, InvoiceDate, <<>>), <<>>)))

\* mkey = d.strftime("%Y-%m") if d is not None else "unknown"
MonthKey(d) == IF d.ok THEN MonthKeyOfDate(d) ELSE Unknown

MonthKeyOf(rrow) == MonthKey(DateOf(rrow))

\* The values one pass of the loop reads from its row.
Fields(rrow) ==
    [amount       |-> to_float(Arg(RowGet(rrow, Amount, Zero))),
     qty          |-> PyInt(to_float(Arg(RowGet(rrow, Quantity, Zero)))),
     total_orders |-> to_float(Arg(RowGet(rrow, TotalOrders, Zero))),
     country      |-> NameOf(rrow, Country),
     payment      |-> NameOf(rrow, PaymentMode),
     mkey         |-> MonthKeyOf(rrow)]

\* The accumulators before the first row.
EmptyAcc ==
    [total_revenue        |-> 0,
     qty_per_month        |-> EmptyDict,
     revenue_per_month    |-> EmptyDict,
     engagement_per_month |-> EmptyDict,
     country_sales        |-> EmptyDict,
     payment_counts       |-> EmptyDict,
     months_set           |-> {}]

\* d[k] = d.get(k, 0) + x
DictAdd(d, k, x) == DictSet(d, k, DictGet(d, k, 0) + x)

\* The seven updates at the end of the loop body, f being the row's values.
Update(a, f) ==
    [total_revenue        |-> a.total_revenue + f.amount,
     qty_per_month        |-> DictAdd(a.qty_per_month, f.mkey, f.qty),
     revenue_per_month    |-> DictAdd(a.revenue_per_month, f.mkey, f.amount),
     engagement_per_month |->
         DictAdd(a.engagement_per_month, f.mkey, f.total_orders),
     country_sales        |-> DictAdd(a.country_sales, f.country, f.amount),
     payment_counts       |-> DictAdd(a.payment_counts, f.payment, 1),
     months_set           |-> a.months_set \cup {f.mkey}]

\* One pass of "for rrow in rows".
Accumulate(a, rrow) == Update(a, Fields(rrow))

(***************************************************************************)
(* After the loop: months, KPIs, trends and breakdowns                     *)
(***************************************************************************)
\* a < b for str, by code point
RECURSIVE LexLess(_, _)
LexLess(a, b) ==
    IF b = <<>> THEN FALSE
    ELSE IF a = <<>> THEN TRUE
    ELSE IF Ord(Head(a)) # Ord(Head(b)) THEN Ord(Head(a)) < Ord(Head(b))
    ELSE LexLess(Tail(a), Tail(b))

\* list.sort() of a set of distinct keys
RECURSIVE SortAsc(_)
SortAsc(S) ==
    IF S = {} THEN <<>>
    ELSE LET least == CHOOSE m \in S : \A o \in S \ {m} : LexLess(m, o)
         IN <<least>> \o SortAsc(S \ {least})

\* Months that keep the bucket of undated rows.
ValidMonthsKeepsUnknown(ms) ==
    SortAsc(ms \ {Unknown}) \o (IF Unknown \in ms THEN <<Unknown>> ELSE <<>>)

\* valid_months = [m for m in months_set if m != "unknown"]; valid_months.sort()
ValidMonths(ms) == SortAsc(ms \ {Unknown})

\* A window on the oldest months, s[:n].
FirstN(s, n) == SubSeq(s, 1, IF Len(s) > n THEN n ELSE Len(s))

\* s[-n:]
LastN(s, n) == SubSeq(s, IF Len(s) > n THEN Len(s) - n + 1 ELSE 1, Len(s))

\* round(n / d, 2) for d > 0, in units of 10^-FracDigits: the nearest
\* hundredth, a tie going to the even one.
RoundDiv2(n, d) ==
    LET q   == n \div d
        r   == n % d
        k   == (r * 100) \div d
        rem == (r * 100) % d
        up  == 2 * rem > d \/ (2 * rem = d /\ (q * 100 + k) % 2 = 1)
    IN (q * 100 + k + (IF up THEN 1 ELSE 0)) * (Scale \div 100)

\* round(x, 2)
Round2(x) == RoundDiv2(x, Scale)

TrendWindow == 4
EngagementWindow == 3

MonthAbbr ==
    <<"Jan", "Feb", "Mar", "Apr", "May", "Jun",
      "Jul", "Aug", "Sep", "Oct", "Nov", "Dec">>

\* month_label
month_label(mkey) ==
    IF mkey # <<>> /\ Len(mkey) = 7 /\ mkey # Unknown
    THEN LET dt == Strptime(mkey \o <<"-", "0", "1">>, Formats[1])
         IN IF dt.ok THEN MonthAbbr[dt.m] ELSE "ValueError"
    ELSE "N/A"

\* A sort that puts a key before the keys of equal value met earlier.
RECURSIVE SortedTiesReversed(_, _)
SortedTiesReversed(keys, value) ==
    IF keys = <<>> THEN <<>>
    ELSE LET before == SortedTiesReversed(SubSeq(keys, 1, Len(keys) - 1), value)
             k == keys[Len(keys)]
             n == Cardinality({i \in 1..Len(before) : value[before[i]] > value[k]})
         IN SubSeq(before, 1, n) \o <<k>> \o SubSeq(before, n + 1, Len(before))

\* sorted(items, key=lambda x: -x[1]): by falling value, equal values in the
\* order of the dict
RECURSIVE SortedByValueDesc(_, _)
SortedByValueDesc(keys, value) ==
    IF keys = <<>> THEN <<>>
    ELSE LET before == SortedByValueDesc(SubSeq(keys, 1, Len(keys) - 1), value)
             k == keys[Len(keys)]
             n == Cardinality({i \in 1..Len(before) : value[before[i]] >= value[k]})
         IN SubSeq(before, 1, n) \o <<k>> \o SubSeq(before, n + 1, Len(before))

\* now_month or "", for a month that may be None
MonthOrEmpty(m) == IF m = NoneVal THEN <<>> ELSE m

NowMonth(a) ==
    LET vm == ValidMonths(a.months_set)
    IN IF vm # <<>> THEN vm[Len(vm)] ELSE NoneVal

\* A previous month taken from the front of the list.
PrevMonthIsFirst(a) ==
    LET vm == ValidMonths(a.months_set)
    IN IF Len(vm) >= 2 THEN vm[1] ELSE NoneVal

PrevMonth(a) ==
    LET vm == ValidMonths(a.months_set)
    IN IF Len(vm) >= 2 THEN vm[Len(vm) - 1] ELSE NoneVal

ThisMonthRevenue(a) == DictGet(a.revenue_per_month, MonthOrEmpty(NowMonth(a)), 0)

LastMonthRevenue(a) == DictGet(a.revenue_per_month, MonthOrEmpty(PrevMonth(a)), 0)

\* if last_month_revenue > 0
GrowthDefined(last) == last > 0

\* round(avg_growth, 2), avg_growth being 0.0 unless the guard holds
AvgGrowthRounded(a) ==
    LET this == ThisMonthRevenue(a)
        last == LastMonthRevenue(a)
    IN IF GrowthDefined(last) THEN RoundDiv2((this - last) * 100, last) ELSE 0

RECURSIVE SumQty(_, _)
SumQty(a, ms) ==
    IF ms = <<>> THEN 0
    ELSE DictGet(a.qty_per_month, Head(ms), 0) + SumQty(a, Tail(ms))

Max(x, y) == IF x >= y THEN x ELSE y

Min(x, y) == IF x <= y THEN x ELSE y

\* round(total_qty / month_count, 2)
AvgQtyRounded(a) ==
    LET vm == ValidMonths(a.months_set)
    IN RoundDiv2(SumQty(a, vm), Max(1, Len(vm)))

\* The body returned with source "sheet".
Result(a) ==
    LET vm == ValidMonths(a.months_set)
        tm == LastN(vm, TrendWindow)
        em == LastN(vm, EngagementWindow)
        cs == SortedByValueDesc(a.country_sales.keys, a.country_sales.val)
        pm == SortedByValueDesc(a.payment_counts.keys, a.payment_counts.val)
    IN [source |-> "sheet",
        kpis |-> [totalRevenue     |-> Round2(a.total_revenue),
                  thisMonthRevenue |-> Round2(ThisMonthRevenue(a)),
                  avgGrowth        |-> AvgGrowthRounded(a),
                  avgQtyPerMonth   |-> AvgQtyRounded(a)],
        revenueTrend |->
            [i \in 1..Len(tm) |->
                [month |-> month_label(tm[i]),
                 value |-> Round2(a.revenue_per_month.val[tm[i]])]],
        engagementTrend |->
            [i \in 1..Len(em) |->
                [month |-> month_label(em[i]),
                 value |-> Round2(DictGet(a.engagement_per_month, em[i], 0))]],
        countrySales |->
            [i \in 1..Len(cs) |->
                [name |-> cs[i], value |-> Round2(a.country_sales.val[cs[i]])]],
        paymentDistribution |->
            [i \in 1..Len(pm) |->
                [name |-> pm[i], value |-> a.payment_counts.val[pm[i]]]]]

\* The example returned when the fetch fails.
Fallback ==
    [source |-> "fallback",
     kpis |-> [totalRevenue     |-> Num(123456),
               thisMonthRevenue |-> Num(8940),
               avgGrowth        |-> (104 * Scale) \div 10,
               avgQtyPerMonth   |-> Num(245)],
     revenueTrend |->
        << [month |-> "Jan", value |-> Num(22000)],
           [month |-> "Feb", value |-> Num(26000)],
           [month |-> "Mar", value |-> Num(31000)],
           [month |-> "Apr", value |-> Num(28000)] >>,
     engagementTrend |->
        << [month |-> "Jan", value |-> Num(18000)],
           [month |-> "Feb", value |-> Num(21500)],
           [month |-> "Mar", value |-> Num(29000)] >>,
     countrySales |->
        << [name |-> "Country A", value |-> Num(40)],
           [name |-> "Country B", value |-> Num(25)],
           [name |-> "Country C", value |-> Num(15)],
           [name |-> "Country D", value |-> Num(10)],
           [name |-> "Country E", value |-> Num(10)] >>,
     paymentDistribution |->
        << [name |-> "UPI / Digital Wallets", value |-> 70],
           [name |-> "Credit Card", value |-> 15],
           [name |-> "Debit Card", value |-> 10],
           [name |-> "Cash", value |-> 5] >>]

(***************************************************************************)
(* The sheets the remote export may hold                                   *)
(***************************************************************************)
Header ==
    <<"CustomerID", "Amount", "Quantity", "InvoiceDate", "Country",
      "PaymentMode", "TotalOrders">>

\* Lines as csv.reader yields them: CustomerID, Amount, Quantity,
\* InvoiceDate, Country, PaymentMode, TotalOrders.
Catalog ==
    { <<<<"c", "1">>, <<"1", "0", "0">>, <<"2">>, <<"2", "0", "2", "4", "-", "0", "1", "-", "1", "5">>, <<"A">>, <<"C", "a", "s", "h">>, <<"1">>>>,
      <<<<"c", "2">>, <<"2", "0", "0">>, <<"3">>, <<"2", "0", "2", "4", "-", "0", "2", "-", "1", "0">>, <<"B">>, <<"C", "a", "r", "d">>, <<"2">>>>,
      <<<<"c", "3">>, <<"1", "2", ".", "3", "4", "6">>, <<"1">>, <<"0", "3", "/", "0", "4", "/", "2", "0", "2", "4">>, <<"A">>, <<"C", "a", "r", "d">>, <<"1">>>>,
      <<<<"c", "4">>, <<"1", "0", "0">>, <<"1", ".", "9">>, <<"n", "o", "t", " ", "a", " ", "d", "a", "t", "e">>, <<" ">>, <<>>, <<>>>>,
      <<<<"c", "5">>, <<"-", "1", "5", "0">>, <<"4">>, <<"2", "0", "2", "4", "-", "0", "1", "-", "2", "0">>, <<"B">>, <<"C", "a", "s", "h">>, <<"5">>>>,
      <<<<"c", "6">>, <<"a", "b", "c">>, <<"x">>, <<"2", "0", "2", "4", "-", "0", "2", "-", "0", "5">>, <<"C">>, <<"U", "P", "I">>, <<"0">>>>,
      <<<<"c", "8">>, <<"$", "3", "0">>, <<"2">>, <<"2", "0", "2", "4", "-", "0", "3", "-", "0", "5", " ", "1", "0", ":", "0", "0">>, <<"B", " ">>, <<"U", "P", "I">>, <<"3">>>>,
      <<<<"c", "7">>, <<"1", "0", "0">>>> }

\* One line per month from 2023-11 to 2024-03 and a line without a date.
TrendCatalog ==
    { <<<<"t", "1">>, <<"1", "0">>, <<"1">>, <<"2", "0", "2", "3", "-", "1", "1", "-", "0", "2">>, <<"A">>, <<"C", "a", "s", "h">>, <<"1">>>>,
      <<<<"t", "2">>, <<"2", "0">>, <<"2">>, <<"2", "0", "2", "3", "-", "1", "2", "-", "2", "4">>, <<"A">>, <<"C", "a", "s", "h">>, <<"2">>>>,
      <<<<"t", "3">>, <<"3", "0">>, <<"3">>, <<"2", "0", "2", "4", "-", "0", "1", "-", "1", "5">>, <<"A">>, <<"C", "a", "s", "h">>, <<"3">>>>,
      <<<<"t", "4">>, <<"5">>, <<"4">>, <<"1", "0", "/", "0", "2", "/", "2", "0", "2", "4">>, <<"A">>, <<"C", "a", "s", "h">>, <<"4">>>>,
      <<<<"t", "5">>, <<"1", "2", ".", "3", "4", "6">>, <<"5">>, <<"2", "0", "2", "4", "/", "0", "3", "/", "0", "9">>, <<"A">>, <<"C", "a", "s", "h">>, <<"5", ".", "5">>>>,
      <<<<"t", "7">>, <<"9">>, <<"7">>, <<>>, <<"A">>, <<"C", "a", "s", "h">>, <<"7">>>> }

\* A second line of 2024-01.
SecondJanuary ==
    <<<<"t", "6">>, <<"7">>, <<"6">>, <<"2", "0", "2", "4", "-", "0", "1", "-", "3", "1", "T", "0", "8", ":", "3", "0">>, <<"A">>, <<"C", "a", "s", "h">>, <<"0", ".", "1", "2", "8">>>>

SeqsUpTo(S, n) == UNION {[1..k -> S] : k \in 0..n}

\* The sequences of at most n elements of S, none of them twice.
RECURSIVE InjectiveSeqs(_, _)
InjectiveSeqs(S, n) ==
    IF n = 0 THEN {<<>>}
    ELSE {<<>>} \cup
         UNION {{<<x>> \o s : s \in InjectiveSeqs(S \ {x}, n - 1)} : x \in S}

\* The empty body, a header alone, a header and blank lines, a blank line
\* before the header, a blank line between rows, a header without the
\* Country and TotalOrders columns.
SpecialSheets ==
    { <<>>,
      <<Header>>,
      <<Header, <<>>, <<>>>>,
      <<<<>>, Header, <<<<"c", "1">>, <<"1", "0", "0">>, <<"2">>, <<"2", "0", "2", "4", "-", "0", "1", "-", "1", "5">>, <<"A">>, <<"C", "a", "s", "h">>, <<"1">>>>>>,
      <<Header, <<<<"c", "1">>, <<"1", "0", "0">>, <<"2">>, <<"2", "0", "2", "4", "-", "0", "1", "-", "1", "5">>, <<"A">>, <<"C", "a", "s", "h">>, <<"1">>>>, <<>>, <<<<"c", "2">>, <<"2", "0", "0">>, <<"3">>, <<"2", "0", "2", "4", "-", "0", "2", "-", "1", "0">>, <<"B">>, <<"C", "a", "r", "d">>, <<"2">>>>>>,
      <<<<"Amount", "InvoiceDate", "PaymentMode">>,
        <<<<"1", "0", "0">>, <<"2", "0", "2", "4", "-", "0", "1", "-", "1", "5">>, <<"C", "a", "s", "h">>>>, <<<<"2", "0", "0">>, <<"1", "3", "/", "1", "3", "/", "2", "0", "2", "4">>, <<"C", "a", "s", "h">>>>>> }

Sheets == {<<Header>> \o body : body \in SeqsUpTo(Catalog, MaxRows)} \cup SpecialSheets

\* The lines of TrendCatalog in any order, each at most once, with or
\* without the second line of 2024-01 after them.
TrendSheets ==
    {<<Header>> \o body \o tail :
        body \in InjectiveSeqs(TrendCatalog, MaxTrendRows),
        tail \in {<<>>, <<SecondJanuary>>}}

(***************************************************************************)
(* get_analysis as a state machine                                         *)
(***************************************************************************)
Pending == [kind |-> "pending"]
HttpError(status) == [kind |-> "http_error", status |-> status]
Json(body) == [kind |-> "json", body |-> body]

NotCalled == [returned |-> FALSE, v |-> 0]

InitAnalysis ==
    /\ pc = "start"
    /\ raised = "none"
    /\ content = <<>>
    /\ rows = <<>>
    /\ idx = 0
    /\ total_revenue = EmptyAcc.total_revenue
    /\ qty_per_month = EmptyAcc.qty_per_month
    /\ revenue_per_month = EmptyAcc.revenue_per_month
    /\ engagement_per_month = EmptyAcc.engagement_per_month
    /\ country_sales = EmptyAcc.country_sales
    /\ payment_counts = EmptyAcc.payment_counts
    /\ months_set = EmptyAcc.months_set
    /\ response = Pending

Init ==
    /\ sheet \in Sheets
    /\ InitAnalysis
    /\ val = PyNone
    /\ result = NotCalled

InitTrend ==
    /\ sheet \in TrendSheets
    /\ InitAnalysis
    /\ val = PyNone
    /\ result = NotCalled

accVars == <<total_revenue, qty_per_month, revenue_per_month,
             engagement_per_month, country_sales, payment_counts, months_set>>

\* The accumulators, as one record.
Acc ==
    [total_revenue        |-> total_revenue,
     qty_per_month        |-> qty_per_month,
     revenue_per_month    |-> revenue_per_month,
     engagement_per_month |-> engagement_per_month,
     country_sales        |-> country_sales,
     payment_counts       |-> payment_counts,
     months_set           |-> months_set]

\* Status codes the remote may answer with.
StatusCodes == {200, 404, 500}

\* requests.get raises requests.exceptions.Timeout after timeout=10.
FetchTimeout ==
    /\ pc = "start"
    /\ raised' = "Timeout"
    /\ pc' = "try_end"
    /\ UNCHANGED <<sheet, content, rows, idx, accVars, response, val, result>>

\* requests.get raises requests.exceptions.ConnectionError.
FetchConnectionError ==
    /\ pc = "start"
    /\ raised' = "ConnectionError"
    /\ pc' = "try_end"
    /\ UNCHANGED <<sheet, content, rows, idx, accVars, response, val, result>>

\* requests.get returns; a status other than 200 raises HTTPException(502)
\* inside the try block, status 200 gives content = r.text.
FetchResponse ==
    /\ pc = "start"
    /\ \E status_code \in StatusCodes :
          IF status_code # 200
          THEN raised' = "HTTPException" /\ content' = content
          ELSE raised' = "none" /\ content' = sheet
    /\ pc' = "try_end"
    /\ UNCHANGED <<sheet, rows, idx, accVars, response, val, result>>

\* An except clause for the errors of requests only.
CatchesRequestsErrorsOnly(exc) == exc \in {"Timeout", "ConnectionError"}

\* except Exception: every exception raised in the try block is one.
Catches(exc) == exc \in {"Timeout", "ConnectionError", "HTTPException"}

\* What the framework answers for an exception that leaves the handler.
Surfaced(exc) == IF exc = "HTTPException" THEN HttpError(502) ELSE HttpError(500)

\* The end of the try statement: the except clause returns the example.
EndTry ==
    /\ pc = "try_end"
    /\ IF raised = "none"
       THEN pc' = "parse" /\ response' = response
       ELSE /\ pc' = "done"
            /\ response' = IF Catches(raised) THEN Json(Fallback)
                           ELSE Surfaced(raised)
    /\ UNCHANGED <<sheet, raised, content, rows, idx, accVars, val, result>>

\* A check that never finds the sheet empty.
NoRowsNever(rs) == FALSE

\* if not rows
NoRows(rs) == rs = <<>>

\* rows = list(csv.DictReader(...)); no rows raise HTTPException(422).
ParseCsv ==
    /\ pc = "parse"
    /\ rows' = DictReader(content)
    /\ IF NoRows(rows')
       THEN pc' = "done" /\ response' = HttpError(422)
       ELSE pc' = "loop" /\ response' = response
    /\ UNCHANGED <<sheet, raised, content, idx, accVars, val, result>>

\* The accumulators take the values of a.
Store(a) ==
    /\ total_revenue' = a.total_revenue
    /\ qty_per_month' = a.qty_per_month
    /\ revenue_per_month' = a.revenue_per_month
    /\ engagement_per_month' = a.engagement_per_month
    /\ country_sales' = a.country_sales
    /\ payment_counts' = a.payment_counts
    /\ months_set' = a.months_set

\* One pass of the aggregation loop.
LoopStep ==
    /\ pc = "loop"
    /\ idx < Len(rows)
    /\ Store(Accumulate(Acc, rows[idx + 1]))
    /\ idx' = idx + 1
    /\ UNCHANGED <<sheet, pc, raised, content, rows, response, val, result>>

\* The rest of the handler after the loop.
Return ==
    /\ pc = "loop"
    /\ idx = Len(rows)
    /\ response' = Json(Result(Acc))
    /\ pc' = "done"
    /\ UNCHANGED <<sheet, raised, content, rows, idx, accVars, val, result>>

Next ==
    \/ FetchTimeout
    \/ FetchConnectionError
    \/ FetchResponse
    \/ EndTry
    \/ ParseCsv
    \/ LoopStep
    \/ Return

Spec == Init /\ [][Next]_vars

SpecTrend == InitTrend /\ [][Next]_vars

(***************************************************************************)
(* to_float on its own                                                     *)
(***************************************************************************)
NumAlphabet == {"1", "5", ".", "-", "$", ",", " "}

Examples == { <<"$", "1", ",", "2", "3", "4", ".", "5", "6">>, <<"a", "b", "c">>, <<" ", "-", "5", ".", "2", "5", " ">> }

NumInputs ==
    {PyNone} \cup {PyNumber(Num(n)) : n \in {-2, 0, 7}}
    \cup {PyStr(s) : s \in SeqsUpTo(NumAlphabet, MaxLen) \cup Examples}

InitNum ==
    /\ val \in NumInputs
    /\ result = NotCalled
    /\ sheet = <<>>
    /\ InitAnalysis

CallToFloat ==
    /\ ~result.returned
    /\ result' = [returned |-> TRUE, v |-> to_float(val)]
    /\ UNCHANGED <<val, analysisVars>>

NextNum == CallToFloat

SpecNum == InitNum /\ [][NextNum]_vars

(***************************************************************************)
(* Natural numbers of any size: limbs in base 2^15, least significant      *)
(* first, no zero limb at the high end                                     *)
(***************************************************************************)
LimbBits == 15

Base == 2 ^ LimbBits

RECURSIVE Trim(_)
Trim(a) ==
    IF a # <<>> /\ a[Len(a)] = 0 THEN Trim(SubSeq(a, 1, Len(a) - 1)) ELSE a

Limb(a, i) == IF i <= Len(a) THEN a[i] ELSE 0

Zeros(n) == [i \in 1..n |-> 0]

RECURSIVE BigAddFrom(_, _, _, _)
BigAddFrom(a, b, i, carry) ==
    IF i > Len(a) /\ i > Len(b) THEN (IF carry = 0 THEN <<>> ELSE <<carry>>)
    ELSE <<(Limb(a, i) + Limb(b, i) + carry) % Base>>
         \o BigAddFrom(a, b, i + 1, (Limb(a, i) + Limb(b, i) + carry) \div Base)

BigAdd(a, b) == BigAddFrom(a, b, 1, 0)

RECURSIVE BigSubFrom(_, _, _, _)
BigSubFrom(a, b, i, borrow) ==
    IF i > Len(a) THEN <<>>
    ELSE <<(Limb(a, i) - Limb(b, i) - borrow + Base) % Base>>
         \o BigSubFrom(a, b, i + 1,
                       IF Limb(a, i) - Limb(b, i) - borrow < 0 THEN 1 ELSE 0)

\* a - b, for a >= b
BigSub(a, b) == Trim(BigSubFrom(a, b, 1, 0))

\* a < b
BigLess(a, b) ==
    IF Len(a) # Len(b) THEN Len(a) < Len(b)
    ELSE \E i \in 1..Len(a) :
            a[i] < b[i] /\ \A j \in (i + 1)..Len(a) : a[j] = b[j]

RECURSIVE BigMulFrom(_, _, _, _)
BigMulFrom(a, k, i, carry) ==
    IF i > Len(a) THEN (IF carry = 0 THEN <<>> ELSE <<carry>>)
    ELSE <<(a[i] * k + carry) % Base>>
         \o BigMulFrom(a, k, i + 1, (a[i] * k + carry) \div Base)

\* a * k, for 0 < k <= Base
BigMulSmall(a, k) == BigMulFrom(a, k, 1, 0)

\* Quotient (high zero limbs kept) and remainder of a by k, 0 < k < Base.
RECURSIVE BigDivRem(_, _)
BigDivRem(a, k) ==
    IF a = <<>> THEN [q |-> <<>>, r |-> 0]
    ELSE LET t == BigDivRem(Tail(a), k)
         IN [q |-> <<(t.r * Base + Head(a)) \div k>> \o t.q,
             r |-> (t.r * Base + Head(a)) % k]

\* a * 2^n
ShiftLeft(a, n) ==
    IF a = <<>> THEN <<>>
    ELSE Zeros(n \div LimbBits) \o BigMulSmall(a, 2 ^ (n % LimbBits))

\* a \div 2^n
ShiftRight(a, n) ==
    IF n \div LimbBits >= Len(a) THEN <<>>
    ELSE Trim(BigDivRem(SubSeq(a, (n \div LimbBits) + 1, Len(a)),
                        2 ^ (n % LimbBits)).q)

\* a % 2^n # 0
LowBitsSet(a, n) == a # ShiftLeft(ShiftRight(a, n), n)

IsOdd(a) == a # <<>> /\ a[1] % 2 = 1

RECURSIVE SmallBitLen(_)
SmallBitLen(x) == IF x = 0 THEN 0 ELSE 1 + SmallBitLen(x \div 2)

BitLen(a) ==
    IF a = <<>> THEN 0 ELSE LimbBits * (Len(a) - 1) + SmallBitLen(a[Len(a)])

\* The number a text of digits writes.
RECURSIVE BigFromDigits(_)
BigFromDigits(s) ==
    IF s = <<>> THEN <<>>
    ELSE BigAdd(BigMulSmall(BigFromDigits(SubSeq(s, 1, Len(s) - 1)), 10),
                Trim(<<DigitVal(s[Len(s)])>>))

(***************************************************************************)
(* float: IEEE-754 binary64, the value (-1)^neg * m * 2^e with m of 53     *)
(* bits, or zero.  Infinities, NaN and subnormals are out of reach of the  *)
(* texts enumerated; -0.0 is held as 0.0, which it equals.                 *)
(***************************************************************************)
SignificandBits == 53

FZero == [neg |-> FALSE, m |-> <<>>, e |-> 0]

\* m has at most 53 bits.
Renormalised(neg, m, e) ==
    IF BitLen(m) > SignificandBits
    THEN [neg |-> neg, m |-> ShiftRight(m, 1), e |-> e + 1]
    ELSE [neg |-> neg, m |-> m, e |-> e]

RoundedUp(neg, q, e, up) ==
    IF up THEN Renormalised(neg, BigAdd(q, <<1>>), e)
    ELSE [neg |-> neg, m |-> q, e |-> e]

\* The float nearest to (-1)^neg * (n + f) * 2^e, where 0 <= f < 1 and
\* f > 0 iff sticky; a tie goes to the even significand.
RoundToFloat(neg, n, e, sticky) ==
    IF n = <<>> THEN FZero
    ELSE IF BitLen(n) <= SignificandBits
    THEN [neg |-> neg,
          m |-> ShiftLeft(n, SignificandBits - BitLen(n)),
          e |-> e - (SignificandBits - BitLen(n))]
    ELSE RoundedUp(neg,
                   ShiftRight(n, BitLen(n) - SignificandBits),
                   e + (BitLen(n) - SignificandBits),
                   /\ IsOdd(ShiftRight(n, BitLen(n) - SignificandBits - 1))
                   /\ \/ sticky
                      \/ LowBitsSet(n, BitLen(n) - SignificandBits - 1)
                      \/ IsOdd(ShiftRight(n, BitLen(n) - SignificandBits)))

\* The float nearest to (-1)^neg * n / k, for 0 < k <= 10000.
FloatOfRatio(neg, n, k) ==
    RoundToFloat(neg, Trim(BigDivRem(Zeros(5) \o n, k).q), 0 - 5 * LimbBits,
                 BigDivRem(Zeros(5) \o n, k).r # 0)

\* Magnitudes a and b in units of 2^e, with their signs, added.
AddAligned(xneg, a, yneg, b, e) ==
    IF xneg = yneg THEN [neg |-> xneg, m |-> BigAdd(a, b), e |-> e]
    ELSE IF BigLess(a, b) THEN [neg |-> yneg, m |-> BigSub(b, a), e |-> e]
    ELSE [neg |-> xneg, m |-> BigSub(a, b), e |-> e]

\* The sum of x and y before it is rounded, m of any length.
ExactSum(x, y) ==
    IF x.m = <<>> THEN y
    ELSE IF y.m = <<>> THEN x
    ELSE AddAligned(x.neg, ShiftLeft(x.m, x.e - Min(x.e, y.e)),
                    y.neg, ShiftLeft(y.m, y.e - Min(x.e, y.e)),
                    Min(x.e, y.e))

Rounded(x) == RoundToFloat(x.neg, x.m, x.e, FALSE)

\* x + y
FAdd(x, y) == Rounded(ExactSum(x, y))

\* |x| * 100 rounded to a whole number, a tie going to the even one.
Hundredths(x) ==
    IF x.e >= 0 THEN ShiftLeft(BigMulSmall(x.m, 100), x.e)
    ELSE IF /\ IsOdd(ShiftRight(BigMulSmall(x.m, 100), 0 - x.e - 1))
            /\ \/ LowBitsSet(BigMulSmall(x.m, 100), 0 - x.e - 1)
               \/ IsOdd(ShiftRight(BigMulSmall(x.m, 100), 0 - x.e))
    THEN BigAdd(ShiftRight(BigMulSmall(x.m, 100), 0 - x.e), <<1>>)
    ELSE ShiftRight(BigMulSmall(x.m, 100), 0 - x.e)

\* round(x, 2): the decimal of two places nearest to x, as a float
FRound2(x) == FloatOfRatio(x.neg, Hundredths(x), 100)

\* float(s), as PyFloat reads it, for at most four digits after the point.
PyFloat64(s) ==
    LET neg     == s # <<>> /\ s[1] = "-"
        start   == IF neg THEN 2 ELSE 1
        intEnd  == ScanDigits(s, start)
        hasDot  == intEnd <= Len(s) /\ s[intEnd] = "."
        fracBeg == IF hasDot THEN intEnd + 1 ELSE intEnd
        fracEnd == IF hasDot THEN ScanDigits(s, fracBeg) ELSE intEnd
        nDigits == (intEnd - start) + (fracEnd - fracBeg)
        n       == BigFromDigits(SubSeq(s, start, intEnd - 1)
                                 \o SubSeq(s, fracBeg, fracEnd - 1))
    IN IF nDigits > 0 /\ fracEnd = Len(s) + 1
       THEN [ok |-> TRUE, v |-> FloatOfRatio(neg, n, 10 ^ (fracEnd - fracBeg))]
       ELSE [ok |-> FALSE, v |-> FZero]

\* to_float of a cell, in binary64
to_float64(v) ==
    IF v.kind = "none" THEN FZero
    ELSE LET s == Strip(v.s)
         IN IF s = <<>> THEN FZero
            ELSE LET t == CurrencySub(s)
                     f == PyFloat64(t)
                 IN IF t # <<>> /\ f.ok THEN f.v ELSE FZero

(***************************************************************************)
(* The aggregation loop with the sums held in binary64                     *)
(***************************************************************************)
MaxFloatRows == 3

Fields64(rrow) ==
    [amount       |-> to_float64(Arg(RowGet(rrow, Amount, Zero))),
     qty          |-> PyInt(to_float(Arg(RowGet(rrow, Quantity, Zero)))),
     total_orders |-> to_float64(Arg(RowGet(rrow, TotalOrders, Zero))),
     country      |-> NameOf(rrow, Country),
     payment      |-> NameOf(rrow, PaymentMode),
     mkey         |-> MonthKeyOf(rrow)]

\* d[k] = d.get(k, 0.0) + x
DictAdd64(d, k, x) == DictSet(d, k, FAdd(DictGet(d, k, FZero), x))

\* The accumulators before the first row.
EmptyAcc64 == [EmptyAcc EXCEPT !.total_revenue = FZero]

\* The seven updates at the end of the loop body.
Update64(a, f) ==
    [total_revenue        |-> FAdd(a.total_revenue, f.amount),
     qty_per_month        |-> DictAdd(a.qty_per_month, f.mkey, f.qty),
     revenue_per_month    |-> DictAdd64(a.revenue_per_month, f.mkey, f.amount),
     engagement_per_month |->
         DictAdd64(a.engagement_per_month, f.mkey, f.total_orders),
     country_sales        |-> DictAdd64(a.country_sales, f.country, f.amount),
     payment_counts       |-> DictAdd(a.payment_counts, f.payment, 1),
     months_set           |-> a.months_set \cup {f.mkey}]

\* Amounts whose sums meet a tie of round(x, 2), an amount of 2^53 beside
\* amounts of 1, and a negative amount without a date.
FloatCatalog ==
    { <<<<"f", "1">>, <<"3", "9", ".", "0", "4", "3">>, <<"1">>, <<"2", "0", "2", "4", "-", "0", "1", "-", "1", "5">>, <<"A">>, <<"C", "a", "s", "h">>, <<"1">>>>,
      <<<<"f", "2">>, <<"9", "7", ".", "4", "9", "6">>, <<"1">>, <<"2", "0", "2", "4", "-", "0", "2", "-", "1", "0">>, <<"A">>, <<"C", "a", "r", "d">>, <<"0", ".", "1">>>>,
      <<<<"f", "3">>, <<"2", "0", ".", "7", "3", "6">>, <<"1">>, <<"2", "0", "2", "4", "-", "0", "1", "-", "2", "0">>, <<"B">>, <<"C", "a", "s", "h">>, <<"0", ".", "2">>>>,
      <<<<"f", "4">>, <<"9", "0", "0", "7", "1", "9", "9", "2", "5", "4", "7", "4", "0", "9", "9", "2">>, <<"1">>, <<"2", "0", "2", "4", "-", "0", "1", "-", "0", "2">>, <<"A">>, <<"C", "a", "s", "h">>, <<"0", ".", "3">>>>,
      <<<<"f", "5">>, <<"1">>, <<"1">>, <<"2", "0", "2", "4", "-", "0", "2", "-", "0", "3">>, <<"B">>, <<"C", "a", "r", "d">>, <<"1">>>>,
      <<<<"f", "6">>, <<"$", "1", ".", "0", "0">>, <<"1">>, <<"2", "0", "2", "4", "-", "0", "2", "-", "0", "4">>, <<"B">>, <<"C", "a", "r", "d">>, <<"1">>>>,
      <<<<"f", "7">>, <<"-", "5", ".", "5">>, <<"1">>, <<>>, <<"A">>, <<"U", "P", "I">>, <<>>>> }

FloatSheets ==
    {<<Header>> \o body : body \in InjectiveSeqs(FloatCatalog, MaxFloatRows)}

\* The handler at the head of the loop, the fetch answered with status 200.
InitFloat ==
    /\ sheet \in FloatSheets
    /\ pc = "loop"
    /\ raised = "none"
    /\ content = sheet
    /\ rows = DictReader(sheet)
    /\ idx = 0
    /\ total_revenue = EmptyAcc64.total_revenue
    /\ qty_per_month = EmptyAcc64.qty_per_month
    /\ revenue_per_month = EmptyAcc64.revenue_per_month
    /\ engagement_per_month = EmptyAcc64.engagement_per_month
    /\ country_sales = EmptyAcc64.country_sales
    /\ payment_counts = EmptyAcc64.payment_counts
    /\ months_set = EmptyAcc64.months_set
    /\ response = Pending
    /\ val = PyNone
    /\ result = NotCalled

\* One pass of the aggregation loop.
LoopStep64 ==
    /\ pc = "loop"
    /\ idx < Len(rows)
    /\ Store(Update64(Acc, Fields64(rows[idx + 1])))
    /\ idx' = idx + 1
    /\ UNCHANGED <<sheet, pc, raised, content, rows, response, val, result>>

NextFloat == LoopStep64

SpecFloat == InitFloat /\ [][NextFloat]_vars

(***************************************************************************)
(* Vocabulary of the properties                                            *)
(***************************************************************************)
Abs(x) == IF x >= 0 THEN x ELSE 0 - x

RECURSIVE SumF(_, _)
SumF(f, S) ==
    IF S = {} THEN 0
    ELSE LET x == CHOOSE y \in S : TRUE IN f[x] + SumF(f, S \ {x})

\* The sum of the values of a dict.
SumVals(d) == SumF(d.val, Range(d.keys))

\* The response is the one computed from the sheet.
SheetDone ==
    pc = "done" /\ response.kind = "json" /\ response.body.source = "sheet"

Kpis == response.body.kpis

\* What the loop read from each row of the sheet.
RowFields == [i \in 1..Len(rows) |-> Fields(rows[i])]

\* A cell that is absent, empty or whitespace only.
IsBlank(cell) == cell = NoneVal \/ \A i \in 1..Len(cell) : cell[i] \in Whitespace

\* The bucket a Country or PaymentMode cell belongs to.
NameBucket(rrow, key) ==
    IF key \notin DOMAIN rrow \/ IsBlank(rrow[key]) THEN UnknownName
    ELSE Strip(rrow[key])

\* The bucket an InvoiceDate cell belongs to: "unknown" when it is blank or
\* no date is read from it.
MonthBucket(rrow) ==
    IF InvoiceDate \notin DOMAIN rrow \/ IsBlank(rrow[InvoiceDate]) THEN Unknown
    ELSE MonthKey(DateOf(rrow))

\* The sum of g[i] over the rows i whose bucket b[i] is k.
SumWhere(b, g, k) ==
    SumF([i \in DOMAIN b |-> IF b[i] = k THEN g[i] ELSE 0], DOMAIN b)

\* Column name of the row values f.
Column(f, name) == [i \in DOMAIN f |-> f[i][name]]

\* The months of the dated rows among the row values f.
MonthsOf(f) == {f[i].mkey : i \in DOMAIN f} \ {Unknown}

\* The number of months of M after m.
Later(M, m) == Cardinality({o \in M : LexLess(m, o)})

\* The month of M with k months of M after it.
FromEnd(M, k) == CHOOSE m \in M : Later(M, m) = k

\* The sum of column name over the rows of month m.
MonthTotal(f, name, m) == SumWhere(Column(f, "mkey"), Column(f, name), m)

\* Revenue of the latest month of M, and of the one before it.
CurRevenue(f, M) == IF M = {} THEN 0 ELSE MonthTotal(f, "amount", FromEnd(M, 0))

PrevRevenue(f, M) ==
    IF Cardinality(M) >= 2 THEN MonthTotal(f, "amount", FromEnd(M, 1)) ELSE 0

\* g is x rounded to two decimal places.
IsRounded(g, x) ==
    g % (Scale \div 100) = 0 /\ 2 * Abs(g - x) <= Scale \div 100

\* g is n / d rounded to two decimal places, for d > 0.
IsRoundedRatio(g, n, d) ==
    /\ g % (Scale \div 100) = 0
    /\ Abs((g \div (Scale \div 100)) - (n \div d) * 100) <= 100
    /\ Abs(((g \div (Scale \div 100)) - (n \div d) * 100) * d - (n % d) * 100)
          <= d \div 2

\* g is exactly n / d, for d > 0.
IsRatio(g, n, d) ==
    /\ ((n % d) * Scale) % d = 0
    /\ g = (n \div d) * Scale + ((n % d) * Scale) \div d

\* g is x: exactly, or rounded to two decimal places.
Carries(exact, g, x) == IF exact THEN g = x ELSE IsRounded(g, x)

\* g is n / d, for d > 0: exactly, or rounded to two decimal places.
CarriesRatio(exact, g, n, d) ==
    IF exact THEN IsRatio(g, n, d) ELSE IsRoundedRatio(g, n, d)

(***************************************************************************)
(* C1                                                                      *)
(***************************************************************************)
\* C1: whenever the fetch fails in transport (timeout, connection error or a
\* status other than 200) the handler never reaches the parsing, and its
\* response is the fixed example tagged "fallback", never an HTTP error.
C1_TransportFailureGivesFallback ==
    raised # "none" =>
        /\ pc \in {"try_end", "done"}
        /\ pc = "done" => response = Json(Fallback)
                          /\ response.body.source = "fallback"

C1_Witness ==
    pc = "done" /\ raised = "HTTPException" /\ response = Json(Fallback)

(***************************************************************************)
(* C2                                                                      *)
(***************************************************************************)
\* The sheet holds no data row: nothing, or only blank lines, after line one.
ZeroDataRows == \A i \in 2..Len(sheet) : sheet[i] = <<>>

\* C2: a fetch answered with status 200 whose text has no data row ends in
\* HTTP 422, never in the example or a "sheet" response, and 422 is the
\* response on that path only.
C2_EmptySheetGives422 ==
    pc = "done" =>
        (response = HttpError(422) <=> (raised = "none" /\ ZeroDataRows))

C2_Witness ==
    pc = "done" /\ sheet = <<Header>> /\ response = HttpError(422)

(***************************************************************************)
(* C3                                                                      *)
(***************************************************************************)
\* The accumulators hold, for the rows with month buckets mb, Country
\* buckets cb, PaymentMode buckets pb and values f, one key for every bucket
\* and under it the sum over the rows of that bucket.
BucketsHoldRows(mb, cb, pb, f) ==
    /\ months_set = Range(mb)
    /\ Range(revenue_per_month.keys) = Range(mb)
    /\ Range(qty_per_month.keys) = Range(mb)
    /\ Range(engagement_per_month.keys) = Range(mb)
    /\ Range(country_sales.keys) = Range(cb)
    /\ Range(payment_counts.keys) = Range(pb)
    /\ \A k \in Range(mb) :
          /\ revenue_per_month.val[k] = SumWhere(mb, Column(f, "amount"), k)
          /\ qty_per_month.val[k] = SumWhere(mb, Column(f, "qty"), k)
          /\ engagement_per_month.val[k]
                = SumWhere(mb, Column(f, "total_orders"), k)
    /\ \A k \in Range(cb) :
          country_sales.val[k] = SumWhere(cb, Column(f, "amount"), k)
    /\ \A k \in Range(pb) :
          payment_counts.val[k] = SumWhere(pb, [i \in DOMAIN pb |-> 1], k)
    /\ SumVals(payment_counts) = Len(pb)

\* C3: after each pass of the loop every row read so far is counted in one
\* month bucket, one Country bucket and one PaymentMode bucket: a blank or
\* unparsable InvoiceDate counts under "unknown", an absent, empty or
\* whitespace-only Country or PaymentMode under "Unknown", the keys are the
\* buckets of the rows, every value is the sum over the rows of its bucket,
\* and the payment counts add up to the number of rows.
C3_EveryRowInOneBucket ==
    pc \in {"loop", "done"} /\ raised = "none" /\ rows # <<>> =>
        BucketsHoldRows([i \in 1..idx |-> MonthBucket(rows[i])],
                        [i \in 1..idx |-> NameBucket(rows[i], Country)],
                        [i \in 1..idx |-> NameBucket(rows[i], PaymentMode)],
                        [i \in 1..idx |-> Fields(rows[i])])

C3_Witness ==
    /\ pc = "done" /\ Len(rows) >= 2
    /\ \E i \in 1..Len(rows) :
          /\ Country \in DOMAIN rows[i] /\ rows[i][Country] = <<" ">>
          /\ rows[i][PaymentMode] = <<>>
          /\ ~DateOf(rows[i]).ok
    /\ \E i \in 1..Len(rows) : rows[i][Country] = NoneVal
    /\ Unknown \in months_set
    /\ DictGet(payment_counts, UnknownName, 0) >= 2

(***************************************************************************)
(* C4                                                                      *)
(***************************************************************************)
\* avgGrowth is (cur - prev) * 100 / prev, exactly or rounded, when the
\* previous month is present with positive revenue, and 0 otherwise.
GrowthIs(cur, prev, exact) ==
    IF prev > 0 THEN CarriesRatio(exact, Kpis.avgGrowth, (cur - prev) * 100, prev)
    ELSE Kpis.avgGrowth = 0

\* C4 as stated: avgGrowth is exactly ((current - previous) / previous) * 100
\* when the previous month's revenue is positive, and 0 when that month is
\* absent or its revenue is zero or negative.
C4_GrowthIsExactRatio ==
    SheetDone =>
        GrowthIs(CurRevenue(RowFields, MonthsOf(RowFields)),
                 PrevRevenue(RowFields, MonthsOf(RowFields)), TRUE)

\* C4, amended: avgGrowth is ((current - previous) / previous) * 100 rounded
\* to two decimal places when the previous month's revenue is positive, and 0
\* when that month is absent or its revenue is zero or negative; the
\* division is never by zero.
C4_GrowthIsRoundedRatio ==
    SheetDone =>
        GrowthIs(CurRevenue(RowFields, MonthsOf(RowFields)),
                 PrevRevenue(RowFields, MonthsOf(RowFields)), FALSE)

C4_Witness ==
    /\ SheetDone
    /\ Cardinality(MonthsOf(RowFields)) = 3
    /\ PrevRevenue(RowFields, MonthsOf(RowFields)) > 0
    /\ Kpis.avgGrowth # 0
    /\ ~GrowthIs(CurRevenue(RowFields, MonthsOf(RowFields)),
                 PrevRevenue(RowFields, MonthsOf(RowFields)), TRUE)

(***************************************************************************)
(* C5                                                                      *)
(***************************************************************************)
\* What the loop reads from each row, the amounts in binary64.
Rows64 == [i \in 1..Len(rows) |-> Fields64(rows[i])]

\* The accumulators after the first k rows of the order p, f the values the
\* loop reads from the rows.
RECURSIVE Totals64(_, _, _)
Totals64(f, p, k) ==
    IF k = 0 THEN EmptyAcc64 ELSE Update64(Totals64(f, p, k - 1), f[p[k]])

\* Accumulators b give the totalRevenue of the response, the revenue listed
\* for every Country and the count of every PaymentMode that the handler's
\* own accumulators give.
SameTotals(b) ==
    /\ FRound2(b.total_revenue) = FRound2(total_revenue)
    /\ \A k \in Range(country_sales.keys) :
          FRound2(b.country_sales.val[k]) = FRound2(country_sales.val[k])
    /\ b.payment_counts.val = payment_counts.val

OrderIndependent(f) ==
    \A p \in Permutations(DOMAIN f) : SameTotals(Totals64(f, p, Len(f)))

\* C5: the rows in any other order give the same totalRevenue, the same
\* revenue for every Country key and the same count for every PaymentMode
\* key.
C5_TotalsOrderIndependent == idx = Len(rows) => OrderIndependent(Rows64)

(***************************************************************************)
(* C7                                                                      *)
(***************************************************************************)
\* now_month and prev_month are the latest month of M and the one before
\* it, None when absent; the revenue of the previous month is that of its
\* rows; thisMonthRevenue is the revenue of the rows of the latest month,
\* exactly or rounded, 0 when M is empty.
MonthsAre(f, M, exact) ==
    /\ NowMonth(Acc) = IF M = {} THEN NoneVal ELSE FromEnd(M, 0)
    /\ PrevMonth(Acc) = IF Cardinality(M) >= 2 THEN FromEnd(M, 1) ELSE NoneVal
    /\ ThisMonthRevenue(Acc) = CurRevenue(f, M)
    /\ LastMonthRevenue(Acc) = PrevRevenue(f, M)
    /\ Carries(exact, Kpis.thisMonthRevenue, CurRevenue(f, M))
    /\ M = {} => Kpis.thisMonthRevenue = 0

\* C7 as stated: the current month is the greatest and the previous month
\* the second greatest observed month key other than "unknown";
\* thisMonthRevenue is exactly the revenue accumulated for the greatest key,
\* 0 when every row is undated; revenue of undated rows counts toward
\* neither month.
C7_ThisMonthIsExactRevenue ==
    SheetDone => MonthsAre(RowFields, MonthsOf(RowFields), TRUE)

\* C7, amended: as stated, thisMonthRevenue being that revenue rounded to
\* two decimal places.
C7_ThisMonthIsRoundedRevenue ==
    SheetDone => MonthsAre(RowFields, MonthsOf(RowFields), FALSE)

C7_Witness ==
    /\ SheetDone
    /\ Cardinality(MonthsOf(RowFields)) >= 2
    /\ Unknown \in months_set
    /\ MonthTotal(RowFields, "amount", Unknown) > 0
    /\ Kpis.thisMonthRevenue # CurRevenue(RowFields, MonthsOf(RowFields))
    /\ PrevRevenue(RowFields, MonthsOf(RowFields)) # 0

(***************************************************************************)
(* C9                                                                      *)
(***************************************************************************)
\* The first row of bucket k.
FirstRow(b, k) == CHOOSE i \in DOMAIN b : b[i] = k /\ \A j \in 1..(i - 1) : b[j] # k

\* list names every bucket of b once, by falling total of g, buckets of
\* equal total in the order of their first rows.
ListedOnceSortedStable(list, b, g) ==
    /\ {list[i].name : i \in 1..Len(list)} = Range(b)
    /\ Len(list) = Cardinality(Range(b))
    /\ \A i, j \in 1..Len(list) :
          i < j =>
            /\ SumWhere(b, g, list[i].name) >= SumWhere(b, g, list[j].name)
            /\ SumWhere(b, g, list[i].name) = SumWhere(b, g, list[j].name)
                  => FirstRow(b, list[i].name) < FirstRow(b, list[j].name)

\* C9: countrySales lists every Country key once by falling revenue and
\* paymentDistribution every PaymentMode key once by falling count; keys of
\* equal value stand in the order in which the rows first met them.
C9_BreakdownsSortedStable ==
    SheetDone =>
        /\ ListedOnceSortedStable(response.body.countrySales,
                                  Column(RowFields, "country"),
                                  Column(RowFields, "amount"))
        /\ ListedOnceSortedStable(response.body.paymentDistribution,
                                  Column(RowFields, "payment"),
                                  [i \in 1..Len(rows) |-> 1])

C9_Witness ==
    /\ SheetDone
    /\ Len(response.body.countrySales) = 3
    /\ country_sales.val[response.body.countrySales[2].name]
          = country_sales.val[response.body.countrySales[3].name]
    /\ country_sales.val[response.body.countrySales[1].name]
          > country_sales.val[response.body.countrySales[2].name]
    /\ Len(response.body.paymentDistribution) = 3

(***************************************************************************)
(* C10                                                                     *)
(***************************************************************************)
Negated(x) == [x EXCEPT !.neg = ~x.neg]

\* The sum of the first k values of d, not rounded.
RECURSIVE ExactTotal(_, _)
ExactTotal(d, k) ==
    IF k = 0 THEN FZero ELSE ExactSum(ExactTotal(d, k - 1), d.val[d.keys[k]])

\* The first k values of d in the order p, added as floats.
RECURSIVE FloatTotal(_, _, _)
FloatTotal(d, p, k) ==
    IF k = 0 THEN FZero ELSE FAdd(FloatTotal(d, p, k - 1), d.val[d.keys[p[k]]])

\* total is the sum of the values of d: the sum itself, or the values added
\* as floats in some order.
SumsTo(d, total) ==
    \/ ExactSum(ExactTotal(d, Len(d.keys)), Negated(total)).m = <<>>
    \/ \E p \in Permutations(1..Len(d.keys)) :
          FloatTotal(d, p, Len(d.keys)) = total

\* C10: after every pass of the loop total_revenue is the sum of
\* revenue_per_month over all month keys, "unknown" included, and the sum of
\* country_sales over all Country keys.
C10_TotalIsSumOfBuckets ==
    /\ SumsTo(revenue_per_month, total_revenue)
    /\ SumsTo(country_sales, total_revenue)

(***************************************************************************)
(* C8                                                                      *)
(***************************************************************************)
\* The label of a month key: the short name of its month.
LabelOf(m) == MonthAbbr[IntValue(m, 6, 7)]

\* trend has the latest months of M, at most window of them, oldest first,
\* each with its label and the month's sum of column name, exactly or
\* rounded.
IsWindow(trend, window, f, M, name, exact) ==
    /\ Len(trend) = Min(window, Cardinality(M))
    /\ \A i \in 1..Len(trend) :
          /\ trend[i].month = LabelOf(FromEnd(M, Len(trend) - i))
          /\ trend[i].month # "N/A"
          /\ Carries(exact, trend[i].value,
                     MonthTotal(f, name, FromEnd(M, Len(trend) - i)))

TrendsAre(f, M, exact) ==
    /\ IsWindow(response.body.revenueTrend, 4, f, M, "amount", exact)
    /\ IsWindow(response.body.engagementTrend, 3, f, M, "total_orders", exact)

\* C8 as stated: revenueTrend has min(4, n) and engagementTrend min(3, n)
\* entries, n the number of observed months other than "unknown"; they are
\* the latest months in ascending order, each with exactly that month's
\* accumulated revenue (TotalOrders sum); "unknown" is in neither.
C8_TrendsCarryExactSums ==
    SheetDone => TrendsAre(RowFields, MonthsOf(RowFields), TRUE)

\* C8, amended: as stated, each entry carrying that month's accumulated
\* revenue (TotalOrders sum) rounded to two decimal places.
C8_TrendsCarryRoundedSums ==
    SheetDone => TrendsAre(RowFields, MonthsOf(RowFields), FALSE)

C8_Witness ==
    /\ SheetDone
    /\ Cardinality(MonthsOf(RowFields)) = 5
    /\ \E i, j \in 1..Len(rows) :
          i # j /\ RowFields[i].mkey = RowFields[j].mkey /\ RowFields[i].mkey # Unknown
    /\ Unknown \in months_set
    /\ Len(response.body.revenueTrend) = 4
    /\ Len(response.body.engagementTrend) = 3
    /\ ~TrendsAre(RowFields, MonthsOf(RowFields), TRUE)

(***************************************************************************)
(* C6                                                                      *)
(***************************************************************************)
\* The characters of s that are digits, points, or a minus sign with no
\* such character before it.
RECURSIVE KeepLeadingMinusOnly(_)
KeepLeadingMinusOnly(s) ==
    IF s = <<>> THEN <<>>
    ELSE LET before == KeepLeadingMinusOnly(SubSeq(s, 1, Len(s) - 1))
             c == s[Len(s)]
         IN IF c \in Digits \cup {"."} \/ (c = "-" /\ before = <<>>)
            THEN Append(before, c)
            ELSE before

Count(s, C) == Cardinality({i \in 1..Len(s) : s[i] \in C})

\* k is a number: a minus sign at the front or none, one point at most, a
\* digit at least.
IsNumeral(k) ==
    /\ Count(k, {"-"}) <= 1
    /\ Count(k, {"-"}) = 1 => k[1] = "-"
    /\ Count(k, {"."}) <= 1
    /\ Count(k, Digits) >= 1

\* The digits of k before position i.
DigitsBefore(k, i) == Count(SubSeq(k, 1, i - 1), Digits)

\* The place of the point of k among its digits: the number of digits
\* before it, all of them when k has no point.
PointAt(k) ==
    IF Count(k, {"."}) = 0 THEN Count(k, Digits)
    ELSE DigitsBefore(k, CHOOSE i \in 1..Len(k) : k[i] = ".")

\* The value of the numeral k.
NumeralValue(k) ==
    LET places == {i \in 1..Len(k) : k[i] \in Digits}
        weight(i) ==
            IF DigitsBefore(k, i) < PointAt(k)
            THEN Scale * 10 ^ (PointAt(k) - DigitsBefore(k, i) - 1)
            ELSE Scale \div 10 ^ (DigitsBefore(k, i) - PointAt(k) + 1)
        mag == SumF([i \in places |-> DigitVal(k[i]) * weight(i)], places)
    IN IF k[1] = "-" THEN 0 - mag ELSE mag

\* The number that text s stands for once filtered to k.
NumberOf(k) == IF IsNumeral(k) THEN NumeralValue(k) ELSE 0

Returned(x) == result = [returned |-> TRUE, v |-> x]

\* C6 as stated: to_float returns a value for every argument; for text, the
\* number left by removing every character that is not a digit, a point or
\* a leading minus sign, a minus sign elsewhere being removed; 0 for an
\* absent or empty argument and for text that leaves no number.
C6_KeepsLeadingMinusOnly ==
    result.returned =>
        CASE val.kind = "none"   -> Returned(0)
          [] val.kind = "number" -> Returned(val.n)
          [] val.kind = "str"    -> Returned(NumberOf(KeepLeadingMinusOnly(val.s)))

\* C6, amended: to_float returns a value for every argument; for text, the
\* number left by removing every character that is not a digit, a point or
\* a minus sign, every minus sign being kept; 0 for an absent or empty
\* argument and for text that leaves no number, as text with a minus sign
\* after its first kept character does.
C6_KeepsEveryMinus ==
    result.returned =>
        CASE val.kind = "none"   -> Returned(0)
          [] val.kind = "number" -> Returned(val.n)
          [] val.kind = "str"    -> Returned(NumberOf(SelectSeq(val.s, IsKeptChar)))

C6_Witness ==
    /\ val = PyStr(<<"1", "-", "5">>)
    /\ Returned(0)

====
